---- MODULE Spec2Model ----
(***************************************************************************)
(* Model of ziper_imager (src/ziper_imager.go): run() checks the search    *)
(* location, walks the tree with one goroutine per sub-directory, appends   *)
(* every file that sniffs as an image to the package-level slice            *)
(* imageFiles, zips the collected paths, checks the archive size and hands  *)
(* the archive to the two Telegram calls.                                   *)
(***************************************************************************)
EXTENDS Naturals, Integers, Sequences, FiniteSets, Bags, TLC

(***************************************************************************)
(* Bounds of the model.                                                    *)
(***************************************************************************)
\* how many entries of the tree may carry an injected failure
MaxFaults == 1
\* length in bytes of a file shorter than the sniffing window
SmallSize == 4
\* length in bytes of a file longer than the sniffing window
LargeSize == 300

(***************************************************************************)
(* Program constants.                                                      *)
(***************************************************************************)
\* buf := make([]byte, 261)
BufSize == 261
\* 20*1024*1024, the Telegram limit run compares the archive size with
SizeLimit == 20 * 1024 * 1024

(***************************************************************************)
(* The directory tree.  A path is the sequence of its components;          *)
(* os.ReadDir returns the entries of a directory sorted by file name.      *)
(*      r/ d/ e/ h                                                          *)
(*      r/ f                                                                *)
(***************************************************************************)
Root == <<"r">>

\* filepath.Join(location, info.Name())
Join(location, name) == Append(location, name)

DirD == Join(Root, "d")
DirE == Join(DirD, "e")
FileF == Join(Root, "f")
FileH == Join(DirE, "h")

Dirs == {Root, DirD, DirE}
Files == {FileF, FileH}
Nodes == Dirs \cup Files

\* the names os.ReadDir(dir) lists, in file-name order
Listing(dir) ==
    CASE dir = Root -> <<"d", "f">>
      [] dir = DirD -> <<"e">>
      [] dir = DirE -> <<"h">>
      [] OTHER -> <<>>

Min(a, b) == IF a < b THEN a ELSE b

SeqToSet(s) == {s[i] : i \in 1..Len(s)}

NoDup(s) == \A i, j \in 1..Len(s) : s[i] = s[j] => i = j

(***************************************************************************)
(* What the file system answers for a node.  fault is the one call that    *)
(* fails on the node: "nostat" (os.Stat of the location), "nolist"          *)
(* (os.ReadDir: not a directory, or no permission), "noinfo" (entry.Info:   *)
(* the entry vanished after the listing), "noopen" (os.Open), "noread"      *)
(* (file.Read), "symdir" (the entry is a symbolic link to a directory:      *)
(* entry.Info describes the link, so IsDir is false; os.Open follows the    *)
(* link and file.Read fails on the directory).  size is the file's length,  *)
(* sig whether its leading bytes are the magic number of an image format.   *)
(***************************************************************************)
DirFates(n) ==
    [isDir : {TRUE}, size : {0}, sig : {FALSE},
     fault : IF n = Root THEN {"none", "nostat", "nolist"}
                         ELSE {"none", "noinfo", "nolist"}]

FileFates ==
    { r \in [isDir : {FALSE}, size : {0, SmallSize, LargeSize}, sig : BOOLEAN,
             fault : {"none", "noinfo", "noopen", "noread", "symdir"}] :
        /\ r.size = 0 => ~r.sig
        /\ r.fault = "symdir" => r.size = 0 }

Fates(n) == IF n \in Dirs THEN DirFates(n) ELSE FileFates

\* the trees the walk is checked on: every choice of fates with at most
\* MaxFaults failing entries
FsConfigs ==
    { d @@ f : d \in { x \in [Dirs -> UNION {DirFates(n) : n \in Dirs}] :
                         \A n \in Dirs : x[n] \in DirFates(n) },
               f \in { y \in [Files -> FileFates] :
                         Cardinality({n \in Files : y[n].fault # "none"}) <= MaxFaults } }

Faulty(f) == {n \in Nodes : f[n].fault # "none"}

VARIABLES
    fs,              \* the file system: Nodes -> fate
    location,        \* flag -l
    telegramToken,   \* flag -t
    telegramChatID,  \* flag -c
    message,         \* flag -m
    debug,           \* flag -d
    silence,         \* flag -silence
    imageFiles,      \* the package-level slice of discovered paths
    rpc,             \* where run() is
    status,          \* what run() returned; -1 while it runs
    pc,              \* per directory: where the search(dir) call is
    idx,             \* per search call: index of the entry the loop is at
    wg,              \* per search call: the counter of its sync.WaitGroup
    loaded,          \* per search call: the value of imageFiles append read
    outStream,       \* bag of lines written to outStream
    errStream,       \* bag of lines written to errStream
    stdout,          \* bag of lines fmt.Println wrote to os.Stdout
    classified,      \* path -> what isImageFile returned for it ("none" before)
    zipIdx,          \* zipImages: index of the path its loop is at
    zipErr,          \* zipImages: the error it returns, "nil" for none
    archive,         \* the output file: created, entries written, index written
    zipSize,         \* zipInfo.Size()
    calls,           \* the calls run has made so far, in order
    first            \* what an earlier search(location) of this process left

walkVars == <<imageFiles, pc, idx, wg, loaded, classified>>
flagVars == <<location, telegramToken, telegramChatID, message, debug, silence>>
streamVars == <<outStream, errStream, stdout>>
runVars == <<rpc, status, zipIdx, zipErr, archive, zipSize, calls>>
vars == <<fs, flagVars, walkVars, streamVars, runVars, first>>

\* one line of output: what it says and the path it is about
Line(kind, path) == SetToBag({<<kind, path>>})

NoLine == EmptyBag

(***************************************************************************)
(* isImageFile.  The result is what the call returns together with the     *)
(* lines it writes.                                                        *)
(***************************************************************************)
\* file.Read(buf): the number of bytes read; a nil file, a failing read and
\* the end of an empty file all give 0 bytes and an error
ReadCount(f, opened) ==
    IF ~opened \/ f.fault \in {"noread", "symdir"} THEN 0 ELSE Min(f.size, BufSize)

\* IsImage deciding on the file's bytes without regard to how many of them
\* the read put into the window
IsImage_unread(buf) == buf.sig

\* filetype.IsImage(buf): the window starts with an image magic number.
\* buf is zero-filled by make, so a window nothing was read into has none.
IsImage(buf) == buf.n > 0 /\ buf.sig

isImageFile(path) ==
    LET f == fs[path]
        openErr == f.fault = "noopen"
        n == ReadCount(f, ~openErr)
        readErr == n = 0
        buf == [n |-> n, sig |-> f.sig]
        isImage == IsImage(buf)
    IN  IF openErr /\ ~silence
        THEN [result |-> FALSE, err |-> Line("open_failed", path), out |-> NoLine]
        ELSE IF readErr /\ ~silence
        THEN [result |-> FALSE, err |-> Line("read_failed", path), out |-> NoLine]
        ELSE [result |-> isImage,
              err |-> IF debug /\ ~isImage THEN Line("not_image", path) ELSE NoLine,
              out |-> IF debug /\ isImage THEN Line("debug_image", path) ELSE NoLine]

(***************************************************************************)
(* search(dir): one call per directory, the root's made by run, every      *)
(* other one by the goroutine its parent's loop started.                   *)
(***************************************************************************)
Parent(dir) == SubSeq(dir, 1, Len(dir) - 1)

\* entries, err := os.ReadDir(location)
ReadDir(dir) ==
    /\ pc[dir] = "readdir"
    /\ IF fs[dir].fault = "nolist"
       THEN /\ errStream' = errStream (+) Line("readdir_err", dir)
            /\ pc' = [pc EXCEPT ![dir] = "returned"]
            /\ idx' = idx
       ELSE /\ errStream' = errStream
            /\ pc' = [pc EXCEPT ![dir] = "loop"]
            /\ idx' = [idx EXCEPT ![dir] = 1]
    /\ UNCHANGED <<fs, first, flagVars, imageFiles, wg, loaded, classified, runVars,
                   outStream, stdout>>

\* the entry the loop of search(dir) is at
Entry(dir) == Join(dir, Listing(dir)[idx[dir]])

\* a failing entry.Info() ending the loop (break) instead of skipping the entry
EntryInfoFails_break(dir) ==
    /\ pc[dir] = "loop"
    /\ idx[dir] <= Len(Listing(dir))
    /\ fs[Join(dir, Listing(dir)[idx[dir]])].fault = "noinfo"
    /\ errStream' = errStream (+) Line("info_err", Join(dir, Listing(dir)[idx[dir]]))
    /\ idx' = [idx EXCEPT ![dir] = Len(Listing(dir)) + 1]
    /\ UNCHANGED <<fs, first, flagVars, imageFiles, pc, wg, loaded, classified, runVars,
                   outStream, stdout>>

\* info, err := entry.Info(); if err != nil { ...; continue }
EntryInfoFails(dir) ==
    /\ pc[dir] = "loop"
    /\ idx[dir] <= Len(Listing(dir))
    /\ fs[Entry(dir)].fault = "noinfo"
    /\ errStream' = errStream (+) Line("info_err", Entry(dir))
    /\ idx' = [idx EXCEPT ![dir] = @ + 1]
    /\ UNCHANGED <<fs, first, flagVars, imageFiles, pc, wg, loaded, classified, runVars,
                   outStream, stdout>>

\* if info.IsDir() { wg.Add(1); go func(path) {...}(fullPath) }
Spawn(dir) ==
    /\ pc[dir] = "loop"
    /\ idx[dir] <= Len(Listing(dir))
    /\ fs[Entry(dir)].fault # "noinfo"
    /\ fs[Entry(dir)].isDir
    /\ wg' = [wg EXCEPT ![dir] = @ + 1]
    /\ pc' = [pc EXCEPT ![Entry(dir)] = "readdir"]
    /\ idx' = [idx EXCEPT ![dir] = @ + 1]
    /\ UNCHANGED <<fs, first, flagVars, imageFiles, loaded, classified, runVars,
                   streamVars>>

\* else if isImageFile(fullPath, errStream) {
Classify(dir) ==
    /\ pc[dir] = "loop"
    /\ idx[dir] <= Len(Listing(dir))
    /\ fs[Entry(dir)].fault # "noinfo"
    /\ ~fs[Entry(dir)].isDir
    /\ LET r == isImageFile(Entry(dir))
       IN  /\ classified' = [classified EXCEPT ![Entry(dir)] =
                                 IF r.result THEN "true" ELSE "false"]
           /\ errStream' = errStream (+) r.err
           /\ stdout' = stdout (+) r.out
           /\ IF r.result
              THEN /\ pc' = [pc EXCEPT ![dir] = "load"]
                   /\ idx' = idx
              ELSE /\ pc' = pc
                   /\ idx' = [idx EXCEPT ![dir] = @ + 1]
    /\ UNCHANGED <<fs, first, flagVars, imageFiles, wg, loaded, runVars, outStream>>

\* imageFiles = append(imageFiles, fullPath): the read of the slice
AppendLoad(dir) ==
    /\ pc[dir] = "load"
    /\ loaded' = [loaded EXCEPT ![dir] = imageFiles]
    /\ pc' = [pc EXCEPT ![dir] = "store"]
    /\ UNCHANGED <<fs, first, flagVars, imageFiles, idx, wg, classified, runVars,
                   streamVars>>

\* imageFiles = append(imageFiles, fullPath): the write of the extended slice,
\* then fmt.Fprintln(outStream, fullPath)
AppendStore(dir) ==
    /\ pc[dir] = "store"
    /\ imageFiles' = Append(loaded[dir], Entry(dir))
    /\ outStream' = outStream (+) Line("found", Entry(dir))
    /\ loaded' = [loaded EXCEPT ![dir] = <<>>]
    /\ idx' = [idx EXCEPT ![dir] = @ + 1]
    /\ pc' = [pc EXCEPT ![dir] = "loop"]
    /\ UNCHANGED <<fs, first, flagVars, wg, classified, runVars, errStream, stdout>>

\* search returning at the end of its loop without wg.Wait()
WaitReturn_noWait(dir) ==
    /\ pc[dir] = "loop"
    /\ idx[dir] > Len(Listing(dir))
    /\ pc' = [pc EXCEPT ![dir] = "returned"]
    /\ UNCHANGED <<fs, first, flagVars, imageFiles, idx, wg, loaded, classified, runVars,
                   streamVars>>

\* the loop is over: wg.Wait() blocks until the counter is zero, then search
\* returns
WaitReturn(dir) ==
    /\ pc[dir] = "loop"
    /\ idx[dir] > Len(Listing(dir))
    /\ wg[dir] = 0
    /\ pc' = [pc EXCEPT ![dir] = "returned"]
    /\ UNCHANGED <<fs, first, flagVars, imageFiles, idx, wg, loaded, classified, runVars,
                   streamVars>>

\* the goroutine ending without wg.Done()
WgDone_missing(dir) ==
    /\ dir # Root
    /\ pc[dir] = "returned"
    /\ pc' = [pc EXCEPT ![dir] = "done"]
    /\ UNCHANGED <<fs, first, flagVars, imageFiles, idx, wg, loaded, classified,
                   runVars, streamVars>>

\* defer wg.Done() of the goroutine that ran search(dir)
WgDone(dir) ==
    /\ dir # Root
    /\ pc[dir] = "returned"
    /\ wg' = [wg EXCEPT ![Parent(dir)] = @ - 1]
    /\ pc' = [pc EXCEPT ![dir] = "done"]
    /\ UNCHANGED <<fs, first, flagVars, imageFiles, idx, loaded, classified, runVars,
                   streamVars>>

search(dir) ==
    \/ ReadDir(dir)
    \/ EntryInfoFails(dir)
    \/ Spawn(dir)
    \/ Classify(dir)
    \/ AppendLoad(dir)
    \/ AppendStore(dir)
    \/ WaitReturn(dir)
    \/ WgDone(dir)

(***************************************************************************)
(* zipImages and addToZip.  Whether a call on a file or on the output      *)
(* succeeds is the environment's choice at the time of the call.           *)
(***************************************************************************)
\* the steps of addToZip that can fail, in the order it takes them
AddSteps == <<"open", "stat", "header", "create", "copy">>

AddOutcomes == {"nil"} \cup SeqToSet(AddSteps)

\* addToZip(imgPath, zipWriter) when step `fail` fails ("nil": none does):
\* the error it returns and the entry it has put into the writer.  The
\* entry exists from CreateHeader on and carries header.Name = imgPath.
addToZip(imgPath, fail) ==
    [err |-> fail,
     entries |-> IF fail = "nil"
                 THEN <<[name |-> imgPath, complete |-> TRUE]>>
                 ELSE IF fail = "copy"
                 THEN <<[name |-> imgPath, complete |-> FALSE]>>
                 ELSE <<>>]

NoArchive == [created |-> FALSE, entries |-> <<>>, index |-> FALSE]

\* zipFile, err := os.Create(output); if err != nil { return err }
ZipCreate ==
    /\ rpc = "zip"
    /\ calls' = Append(calls, "zipImages")
    /\ \E ok \in BOOLEAN :
         IF ok
         THEN /\ archive' = [created |-> TRUE, entries |-> <<>>, index |-> FALSE]
              /\ zipIdx' = 1
              /\ zipErr' = "nil"
              /\ rpc' = "ziploop"
         ELSE /\ zipErr' = "create_output"
              /\ rpc' = "zipret"
              /\ UNCHANGED <<archive, zipIdx>>
    /\ UNCHANGED <<fs, first, flagVars, walkVars, streamVars, status, zipSize>>

\* the loop of zipImages going on to the next path after a failed addToZip
ZipAdd_keepGoing ==
    /\ rpc = "ziploop"
    /\ zipIdx <= Len(imageFiles)
    /\ \E fail \in AddOutcomes :
         /\ archive' = [archive EXCEPT !.entries =
                            @ \o IF fail \in {"nil", "copy"}
                                 THEN <<[name |-> imageFiles[zipIdx],
                                         complete |-> fail = "nil"]>>
                                 ELSE <<>>]
         /\ zipErr' = IF fail = "nil" THEN zipErr ELSE fail
         /\ zipIdx' = zipIdx + 1
         /\ rpc' = rpc
    /\ UNCHANGED <<fs, first, flagVars, walkVars, streamVars, status, zipSize, calls>>

\* for _, img := range imageFiles { if err := addToZip(...); err != nil { return err } }
ZipAdd ==
    /\ rpc = "ziploop"
    /\ zipIdx <= Len(imageFiles)
    /\ \E fail \in AddOutcomes :
         LET r == addToZip(imageFiles[zipIdx], fail)
         IN  /\ archive' = [archive EXCEPT !.entries = @ \o r.entries]
             /\ zipErr' = r.err
             /\ IF r.err = "nil"
                THEN zipIdx' = zipIdx + 1 /\ rpc' = rpc
                ELSE zipIdx' = zipIdx /\ rpc' = "zipclose"
    /\ UNCHANGED <<fs, first, flagVars, walkVars, streamVars, status, zipSize, calls>>

\* the loop is over: return nil
ZipLoopEnd ==
    /\ rpc = "ziploop"
    /\ zipIdx > Len(imageFiles)
    /\ rpc' = "zipclose"
    /\ UNCHANGED <<fs, first, flagVars, walkVars, streamVars, status, zipIdx, zipErr,
                   archive, zipSize, calls>>

\* defer zipWriter.Close(); defer zipFile.Close(): the writer flushes its
\* buffer and writes the central index, the file is closed; what the two
\* calls return is dropped and zipImages returns the error it already had
ZipClose ==
    /\ rpc = "zipclose"
    /\ \E ok \in BOOLEAN : archive' = [archive EXCEPT !.index = ok]
    /\ rpc' = "zipret"
    /\ UNCHANGED <<fs, first, flagVars, walkVars, streamVars, status, zipIdx, zipErr,
                   zipSize, calls>>

zipImages == ZipCreate \/ ZipAdd \/ ZipLoopEnd \/ ZipClose

(***************************************************************************)
(* The two Telegram calls: the error they return, "nil" for none.  httpOk  *)
(* says whether everything after the chat ID check went well: building the *)
(* request, the HTTP exchange and a 200 status.                            *)
(***************************************************************************)
sendMessageToTelegram(msg, token, chatID, httpOk) ==
    IF chatID = "" THEN "chat_id is empty"
    ELSE IF ~httpOk THEN "request failed"
    ELSE "nil"

sendFileToTelegram(filePath, msg, token, chatID, httpOk) ==
    IF chatID = "" THEN "chat_id is empty"
    ELSE IF ~httpOk THEN "request failed"
    ELSE "nil"

(***************************************************************************)
(* run                                                                     *)
(***************************************************************************)
Tokens == {"", "T"}
ChatIDs == {"", "C"}
Messages == {"", "M"}

\* return <code>
Return(code) == rpc' = "exit" /\ status' = code

\* flags.Parse(args[1:])
RunParse ==
    /\ rpc = "parse"
    /\ telegramToken' \in Tokens
    /\ telegramChatID' \in ChatIDs
    /\ message' \in Messages
    /\ debug' \in BOOLEAN
    /\ silence' \in BOOLEAN
    /\ rpc' = "stat"
    /\ UNCHANGED <<fs, first, location, walkVars, streamVars, status, zipIdx, zipErr,
                   archive, zipSize, calls>>

\* if _, err := os.Stat(location); err != nil { ...; return 1 }
\* search(location, outStream, errStream)
RunStat ==
    /\ rpc = "stat"
    /\ IF fs[location].fault = "nostat"
       THEN /\ outStream' = outStream (+) Line("invalid_location", location)
            /\ Return(1)
            /\ UNCHANGED <<pc, calls>>
       ELSE /\ pc' = [pc EXCEPT ![location] = "readdir"]
            /\ calls' = Append(calls, "search")
            /\ rpc' = "search"
            /\ UNCHANGED <<outStream, status>>
    /\ UNCHANGED <<fs, first, flagVars, imageFiles, idx, wg, loaded, classified,
                   errStream, stdout, zipIdx, zipErr, archive, zipSize>>

\* RunSearched without the test of len(imageFiles): zipImages is always called
RunSearched_alwaysZip ==
    /\ rpc = "search"
    /\ pc[location] = "returned"
    /\ pc' = [pc EXCEPT ![location] = "done"]
    /\ rpc' = "zip"
    /\ UNCHANGED <<outStream, status>>
    /\ UNCHANGED <<fs, first, flagVars, imageFiles, idx, wg, loaded, classified,
                   errStream, stdout, zipIdx, zipErr, archive, zipSize, calls>>

\* search has returned: if len(imageFiles) > 0 { zipImages(...) } else { ... }
RunSearched ==
    /\ rpc = "search"
    /\ pc[location] = "returned"
    /\ pc' = [pc EXCEPT ![location] = "done"]
    /\ IF Len(imageFiles) > 0
       THEN /\ rpc' = "zip"
            /\ UNCHANGED <<outStream, status>>
       ELSE /\ outStream' = outStream (+) Line("no_images", <<>>)
            /\ Return(0)
    /\ UNCHANGED <<fs, first, flagVars, imageFiles, idx, wg, loaded, classified,
                   errStream, stdout, zipIdx, zipErr, archive, zipSize, calls>>

\* if err := zipImages(...); err != nil { ...; return 1 }; "Zipped %d images"
RunZipped ==
    /\ rpc = "zipret"
    /\ IF zipErr # "nil"
       THEN /\ errStream' = errStream (+) Line("zip_err", <<>>)
            /\ Return(1)
            /\ UNCHANGED outStream
       ELSE /\ outStream' = outStream (+) Line("zipped", imageFiles)
            /\ rpc' = "zipstat"
            /\ UNCHANGED <<errStream, status>>
    /\ UNCHANGED <<fs, first, flagVars, walkVars, stdout, zipIdx, zipErr, archive,
                   zipSize, calls>>

\* the sizes os.Stat may report for the archive
ZipSizes == {SizeLimit - 1, SizeLimit, SizeLimit + 1}

\* zipInfo, err := os.Stat(outputZip); if err != nil { ...; return 1 }
RunStatZip ==
    /\ rpc = "zipstat"
    /\ calls' = Append(calls, "os.Stat")
    /\ \/ /\ errStream' = errStream (+) Line("zipstat_err", <<>>)
          /\ Return(1)
          /\ UNCHANGED zipSize
       \/ /\ zipSize' \in ZipSizes
          /\ rpc' = "sizecheck"
          /\ UNCHANGED <<errStream, status>>
    /\ UNCHANGED <<fs, first, flagVars, walkVars, outStream, stdout, zipIdx, zipErr,
                   archive>>

\* the comparison with >= in place of >
TooLarge_orEqual(size) == size >= SizeLimit

\* zipInfo.Size() > 20*1024*1024
TooLarge(size) == size > SizeLimit

\* if zipInfo.Size() > 20*1024*1024 { ...; return 1 }
RunSizeCheck ==
    /\ rpc = "sizecheck"
    /\ calls' = Append(calls, "sizeCheck")
    /\ IF TooLarge(zipSize)
       THEN /\ errStream' = errStream (+) Line("too_large", <<>>)
            /\ Return(1)
       ELSE /\ rpc' = "notify"
            /\ UNCHANGED <<errStream, status>>
    /\ UNCHANGED <<fs, first, flagVars, walkVars, outStream, stdout, zipIdx, zipErr,
                   archive, zipSize>>

\* run reporting a failed sendMessageToTelegram and going on to the upload
RunNotify_goOn ==
    /\ rpc = "notify"
    /\ calls' = Append(calls, "sendMessageToTelegram")
    /\ \E httpOk \in BOOLEAN :
         /\ errStream' =
              IF sendMessageToTelegram(message, telegramToken, telegramChatID, httpOk) # "nil"
              THEN errStream (+) Line("notify_err", <<>>)
              ELSE errStream
         /\ rpc' = "upload"
         /\ UNCHANGED status
    /\ UNCHANGED <<fs, first, flagVars, walkVars, outStream, stdout, zipIdx, zipErr,
                   archive, zipSize>>

\* if err := sendMessageToTelegram(...); err != nil { ...; return 1 }
RunNotify ==
    /\ rpc = "notify"
    /\ calls' = Append(calls, "sendMessageToTelegram")
    /\ \E httpOk \in BOOLEAN :
         IF sendMessageToTelegram(message, telegramToken, telegramChatID, httpOk) # "nil"
         THEN /\ errStream' = errStream (+) Line("notify_err", <<>>)
              /\ Return(1)
         ELSE /\ rpc' = "upload"
              /\ UNCHANGED <<errStream, status>>
    /\ UNCHANGED <<fs, first, flagVars, walkVars, outStream, stdout, zipIdx, zipErr,
                   archive, zipSize>>

\* telegramToken != "" && telegramChatID != "" && message != ""
UploadWanted == telegramToken # "" /\ telegramChatID # "" /\ message # ""

\* if <all three given> { if err := sendFileToTelegram(...) ... }; return 0
RunUpload ==
    /\ rpc = "upload"
    /\ IF UploadWanted
       THEN /\ calls' = Append(calls, "sendFileToTelegram")
            /\ \E httpOk \in BOOLEAN :
                 IF sendFileToTelegram(archive, message, telegramToken,
                                       telegramChatID, httpOk) # "nil"
                 THEN /\ errStream' = errStream (+) Line("upload_err", <<>>)
                      /\ Return(1)
                      /\ UNCHANGED outStream
                 ELSE /\ outStream' = outStream (+) Line("sent", <<>>)
                      /\ Return(0)
                      /\ UNCHANGED errStream
       ELSE /\ Return(0)
            /\ UNCHANGED <<calls, outStream, errStream>>
    /\ UNCHANGED <<fs, first, flagVars, walkVars, stdout, zipIdx, zipErr, archive,
                   zipSize>>

run ==
    \/ RunParse
    \/ RunStat
    \/ RunSearched
    \/ RunZipped
    \/ RunStatZip
    \/ RunSizeCheck
    \/ RunNotify
    \/ RunUpload

(***************************************************************************)
(* The program: main calls setFlags, then run.                             *)
(***************************************************************************)
\* no search has been made before
NoFirst ==
    [files |-> <<>>, classified |-> [f \in Files |-> "none"], out |-> EmptyBag,
     silence |-> FALSE, debug |-> FALSE]

Init ==
    /\ fs \in FsConfigs
    /\ Cardinality(Faulty(fs)) <= MaxFaults
    /\ location = Root
    /\ telegramToken = ""
    /\ telegramChatID = ""
    /\ message = ""
    /\ debug = FALSE
    /\ silence = FALSE
    /\ imageFiles = <<>>
    /\ rpc = "parse"
    /\ status = -1
    /\ pc = [d \in Dirs |-> "idle"]
    /\ idx = [d \in Dirs |-> 0]
    /\ wg = [d \in Dirs |-> 0]
    /\ loaded = [d \in Dirs |-> <<>>]
    /\ outStream = EmptyBag
    /\ errStream = EmptyBag
    /\ stdout = EmptyBag
    /\ classified = [f \in Files |-> "none"]
    /\ zipIdx = 0
    /\ zipErr = "nil"
    /\ archive = NoArchive
    /\ zipSize = 0
    /\ calls = <<>>
    /\ first = NoFirst

Next ==
    \/ run
    \/ \E dir \in Dirs : search(dir)
    \/ zipImages

Spec == Init /\ [][Next]_vars

(***************************************************************************)
(* search called twice in one process, as a caller of the package that     *)
(* walks the same tree again does: the flags are set, search(location) is  *)
(* called, the flags are set again and search(location) is called again.   *)
(* Each call has its own WaitGroup and loop; imageFiles is the package     *)
(* variable and nothing in search assigns it but the append.               *)
(***************************************************************************)
InitTwice ==
    /\ fs \in FsConfigs
    /\ Cardinality(Faulty(fs)) <= MaxFaults
    /\ fs[Root].fault # "nostat"
    /\ location = Root
    /\ telegramToken = ""
    /\ telegramChatID = ""
    /\ message = ""
    /\ debug \in BOOLEAN
    /\ silence \in BOOLEAN
    /\ imageFiles = <<>>
    /\ rpc = "walk1"
    /\ status = -1
    /\ pc = [d \in Dirs |-> IF d = Root THEN "readdir" ELSE "idle"]
    /\ idx = [d \in Dirs |-> 0]
    /\ wg = [d \in Dirs |-> 0]
    /\ loaded = [d \in Dirs |-> <<>>]
    /\ outStream = EmptyBag
    /\ errStream = EmptyBag
    /\ stdout = EmptyBag
    /\ classified = [f \in Files |-> "none"]
    /\ zipIdx = 0
    /\ zipErr = "nil"
    /\ archive = NoArchive
    /\ zipSize = 0
    /\ calls = <<>>
    /\ first = NoFirst

\* the first search(location) has returned; the second is called
SearchAgain ==
    /\ rpc = "walk1"
    /\ pc[location] = "returned"
    /\ first' = [files |-> imageFiles, classified |-> classified, out |-> outStream,
                 silence |-> silence, debug |-> debug]
    /\ debug' \in BOOLEAN
    /\ silence' \in BOOLEAN
    /\ pc' = [d \in Dirs |-> IF d = location THEN "readdir" ELSE "idle"]
    /\ idx' = [d \in Dirs |-> 0]
    /\ wg' = [d \in Dirs |-> 0]
    /\ loaded' = [d \in Dirs |-> <<>>]
    /\ classified' = [f \in Files |-> "none"]
    /\ rpc' = "walk2"
    /\ UNCHANGED <<fs, location, telegramToken, telegramChatID, message, imageFiles,
                   streamVars, status, zipIdx, zipErr, archive, zipSize, calls>>

\* the second search(location) has returned
SearchedTwice ==
    /\ rpc = "walk2"
    /\ pc[location] = "returned"
    /\ pc' = [pc EXCEPT ![location] = "done"]
    /\ rpc' = "walked2"
    /\ UNCHANGED <<fs, first, flagVars, imageFiles, idx, wg, loaded, classified,
                   streamVars, status, zipIdx, zipErr, archive, zipSize, calls>>

\* one search(location) under the Go scheduler: every goroutine that can
\* take a step eventually takes one
NextWalk == \E dir \in Dirs : search(dir)

SpecFair ==
    /\ InitTwice
    /\ [][NextWalk]_vars
    /\ \A dir \in Dirs : WF_vars(search(dir))

NextTwice ==
    \/ \E dir \in Dirs : search(dir)
    \/ SearchAgain
    \/ SearchedTwice

SpecTwice == InitTwice /\ [][NextTwice]_vars

(***************************************************************************)
(* Vocabulary of the properties.                                           *)
(***************************************************************************)
\* the top-level call search(location) has returned
WalkReturned == pc[Root] \in {"returned", "done"}

\* the goroutine of search(dir) is running: started and wg.Done() not yet run
Running(dir) == pc[dir] \notin {"idle", "done"}

\* dir lies below anc in the tree
Below(dir, anc) ==
    Len(dir) > Len(anc) /\ SubSeq(dir, 1, Len(anc)) = anc

\* how often path occurs in the sequence s
Count(s, path) == Cardinality({i \in 1..Len(s) : s[i] = path})

\* the call `name` is among the calls run has made
Called(name) == \E i \in 1..Len(calls) : calls[i] = name

\* the bag of lines holds the line
Wrote(stream, kind, path) == BagIn(<<kind, path>>, stream)

(***************************************************************************)
(* C1 Completeness of the walk: once the top-level search(root) has        *)
(* returned, every file for which isImageFile returned true is in          *)
(* imageFiles exactly once, whatever the interleaving of the goroutines.   *)
(* The unsynchronised append of two goroutines loses one of the two paths, *)
(* so this is violated.                                                    *)
(***************************************************************************)
C1_Completeness ==
    WalkReturned =>
        \A f \in Files : classified[f] = "true" => Count(imageFiles, f) = 1

(***************************************************************************)
(* C2 No lost updates: in every step imageFiles only grows (a path that is *)
(* in it stays in it) and never holds a path twice.  Violated by the store *)
(* of an append whose load preceded another goroutine's store.             *)
(***************************************************************************)
C2_NoLostUpdates ==
    [][/\ SeqToSet(imageFiles) \subseteq SeqToSet(imageFiles')
       /\ NoDup(imageFiles')]_vars

(***************************************************************************)
(* C3 Fork-join barrier and freeze: a search(dir) call that has returned   *)
(* has no goroutine below it still running; after the top-level search has *)
(* returned no step changes imageFiles; and while run is in zipImages or   *)
(* later, no walker goroutine is running.                                  *)
(***************************************************************************)
C3_Barrier ==
    \A dir \in Dirs :
        pc[dir] \in {"returned", "done"} =>
            \A sub \in Dirs : Below(sub, dir) => ~Running(sub)

C3_ZipAfterWalk ==
    rpc \notin {"parse", "stat", "search"} => \A dir \in Dirs : ~Running(dir)

C3_Frozen == WalkReturned => imageFiles' = imageFiles

\* C3: the barrier and the zip-after-walk condition in every state, the
\* freeze in every step
C3_ForkJoin == [](C3_Barrier /\ C3_ZipAfterWalk) /\ [][C3_Frozen]_vars

\* zipImages is at its loop after a walk in which the goroutine of r/d started
\* the goroutine of r/d/e and both appended or classified their files
C3_Witness ==
    /\ rpc = "ziploop"
    /\ pc[DirD] = "done" /\ pc[DirE] = "done"
    /\ Count(imageFiles, FileH) = 1 /\ Count(imageFiles, FileF) = 1

(***************************************************************************)
(* C4 Soundness of the result set: every path in imageFiles is a           *)
(* non-directory entry for which isImageFile returned true, and no path in *)
(* it names a file that is empty, shorter than the 261-byte window without *)
(* an image signature, unopenable or unreadable.                           *)
(***************************************************************************)
C4_Soundness ==
    \A i \in 1..Len(imageFiles) :
        LET p == imageFiles[i]
        IN  /\ p \in Files
            /\ ~fs[p].isDir
            /\ classified[p] = "true"
            /\ fs[p].size # 0
            /\ ~(fs[p].size < 261 /\ ~fs[p].sig)
            /\ fs[p].fault \notin {"noopen", "noread"}

\* the walk is over; with -silence set the unopenable r/d/e/h, whose bytes
\* would be an image, was classified and left out, and r/f was collected
C4_Witness ==
    /\ WalkReturned
    /\ silence
    /\ fs[FileH].fault = "noopen" /\ fs[FileH].sig
    /\ classified[FileH] = "false"
    /\ fs[FileF].size = SmallSize
    /\ imageFiles = <<FileF>>

(***************************************************************************)
(* C5 Per-entry failure isolation.  An entry is met by the walk when the   *)
(* location can be stat'd and every directory above the entry can be read. *)
(* Once the top-level search has returned, every entry met has been dealt  *)
(* with: an entry whose Info failed is reported and skipped, a directory   *)
(* has had its own search call run to its end (a failed listing reported), *)
(* a file has been classified (a failed open or read reported).  No state  *)
(* of the walk is stuck, and run returns non-zero only for a location that *)
(* cannot be stat'd or from zipImages on.                                  *)
(* As claimed, every failure is reported on the error stream; the code     *)
(* reports a failed open or read only when -silence is not set.            *)
(***************************************************************************)
Met(n) ==
    /\ n # Root
    /\ \A anc \in Dirs : Below(n, anc) => fs[anc].fault = "none"

\* the entry has been dealt with; quiet: failures to open or read a file
\* need not be reported
Handled(n, quiet) ==
    CASE fs[n].fault = "noinfo" -> Wrote(errStream, "info_err", n)
      [] fs[n].fault # "noinfo" /\ fs[n].isDir ->
            /\ pc[n] = "done"
            /\ fs[n].fault = "nolist" => Wrote(errStream, "readdir_err", n)
      [] OTHER ->
            /\ classified[n] # "none"
            /\ fs[n].fault \in {"noopen", "noread"} => classified[n] = "false"
            /\ (fs[n].fault = "noopen" /\ ~quiet) => Wrote(errStream, "open_failed", n)
            /\ (fs[n].fault = "noread" /\ ~quiet) => Wrote(errStream, "read_failed", n)

C5_NoStall ==
    (rpc = "search" /\ ~WalkReturned) => \E dir \in Dirs : ENABLED search(dir)

C5_NotFatal ==
    (rpc = "exit" /\ status # 0) =>
        (fs[Root].fault = "nostat" \/ Called("zipImages"))

\* C5 as claimed: every failure is reported
C5_AlwaysReported ==
    /\ WalkReturned =>
          /\ fs[Root].fault = "nolist" => Wrote(errStream, "readdir_err", Root)
          /\ \A n \in Nodes : Met(n) => Handled(n, FALSE)
    /\ C5_NoStall
    /\ C5_NotFatal

\* C5 as amended: a failed open or read is reported unless -silence is set
C5_Isolation ==
    /\ WalkReturned =>
          /\ fs[Root].fault = "nolist" => Wrote(errStream, "readdir_err", Root)
          /\ \A n \in Nodes : Met(n) => Handled(n, silence)
    /\ C5_NoStall
    /\ C5_NotFatal

\* run has returned 0 after a walk, under -silence, in which r/d/e/h could
\* not be opened and was skipped without a report, and r/f was collected
C5_Witness ==
    /\ rpc = "exit" /\ status = 0
    /\ silence
    /\ fs[FileH].fault = "noopen"
    /\ classified[FileH] = "false"
    /\ ~Wrote(errStream, "open_failed", FileH)
    /\ imageFiles = <<FileF>>

(***************************************************************************)
(* C6 Archive exactness: when zipImages has returned nil, the entry names  *)
(* of the archive, read from its central index, are the paths of           *)
(* imageFiles, in the same order, each once and unchanged.  Violated when  *)
(* the deferred Close fails: zipImages still returns nil and the archive   *)
(* has no index.                                                           *)
(***************************************************************************)
\* zipImages has returned to run with a nil error
ZipReturnedNil ==
    /\ Called("zipImages")
    /\ rpc \notin {"zip", "ziploop", "zipclose"}
    /\ zipErr = "nil"

\* the names a reader of the archive finds: those of the central index
ArchiveNames ==
    IF archive.index
    THEN [i \in 1..Len(archive.entries) |-> archive.entries[i].name]
    ELSE <<>>

C6_ArchiveExact ==
    ZipReturnedNil => (ArchiveNames = imageFiles /\ NoDup(ArchiveNames))

(***************************************************************************)
(* C7 Fail-fast build: once addToZip has failed for a path, zipImages      *)
(* keeps that error, attempts no later path and adds nothing to the        *)
(* archive; run then returns 1 having made no os.Stat of the archive, no   *)
(* size check, no notify and no upload call.                               *)
(***************************************************************************)
AddFailed == zipErr \in SeqToSet(AddSteps)

C7_Stops ==
    AddFailed =>
        /\ zipErr' = zipErr
        /\ zipIdx' = zipIdx
        /\ archive'.entries = archive.entries

C7_RunFails ==
    AddFailed =>
        /\ rpc \in {"zipclose", "zipret", "exit"}
        /\ rpc = "exit" => status = 1
        /\ Len(archive.entries) <= zipIdx
        /\ \A i \in 1..Len(archive.entries) : archive.entries[i].name = imageFiles[i]
        /\ \A i \in 1..Len(archive.entries) : i < zipIdx => archive.entries[i].complete
        /\ ~Called("os.Stat") /\ ~Called("sizeCheck")
        /\ ~Called("sendMessageToTelegram") /\ ~Called("sendFileToTelegram")

\* C7: run fails without the later stages in every state, zipImages stops in
\* every step
C7_FailFast == []C7_RunFails /\ [][C7_Stops]_vars

\* run has returned 1 after the first of two paths could not be opened; the
\* second was never attempted
C7_Witness ==
    /\ rpc = "exit" /\ status = 1
    /\ zipErr = "open"
    /\ Len(imageFiles) = 2 /\ zipIdx = 1
    /\ archive.entries = <<>>

(***************************************************************************)
(* C8 Size gate: once run has compared the archive size with the limit, a  *)
(* size strictly above 20*1024*1024 has made run report the size limit and *)
(* return 1 with neither Telegram call made; a size of at most the limit,  *)
(* the limit itself included, has taken run on to the notify call.         *)
(***************************************************************************)
C8_SizeGate ==
    Called("sizeCheck") =>
        IF zipSize > 20 * 1024 * 1024
        THEN /\ rpc = "exit" /\ status = 1
             /\ Wrote(errStream, "too_large", <<>>)
             /\ ~Called("sendMessageToTelegram")
             /\ ~Called("sendFileToTelegram")
        ELSE /\ ~Wrote(errStream, "too_large", <<>>)
             /\ rpc = "notify" \/ Called("sendMessageToTelegram")

\* an archive of exactly the limit has been notified
C8_Witness ==
    /\ zipSize = 20 * 1024 * 1024
    /\ Called("sizeCheck")
    /\ Called("sendMessageToTelegram")

(***************************************************************************)
(* C9 An invalid or inaccessible location is fatal before any walking:     *)
(* when the location cannot be stat'd or cannot be listed, run returns a   *)
(* non-zero status, classifies no entry, creates no archive and makes no   *)
(* delivery call.  Violated for a location that can be stat'd but not      *)
(* listed: search reports the error and run returns 0.                     *)
(***************************************************************************)
C9_RootFatal ==
    (rpc = "exit" /\ fs[location].fault \in {"nostat", "nolist"}) =>
        /\ status # 0
        /\ \A f \in Files : classified[f] = "none"
        /\ ~archive.created
        /\ ~Called("sendMessageToTelegram") /\ ~Called("sendFileToTelegram")

(***************************************************************************)
(* C10 Delivery is optional: when images were found, the build succeeded   *)
(* and the archive is within the limit, but the token or the chat ID is    *)
(* empty, run makes no upload call and returns 0; the upload call is made  *)
(* only when token, chat ID and message are all non-empty.  Violated for   *)
(* an empty chat ID: the notify call fails and run returns 1.              *)
(***************************************************************************)
C10_OptionalDelivery ==
    /\ Called("sendFileToTelegram") =>
          (telegramToken # "" /\ telegramChatID # "" /\ message # "")
    /\ (/\ rpc = "exit"
        /\ Len(imageFiles) > 0
        /\ ZipReturnedNil
        /\ Called("sizeCheck") /\ zipSize <= 20 * 1024 * 1024
        /\ (telegramToken = "" \/ telegramChatID = ""))
       => (status = 0 /\ ~Called("sendFileToTelegram"))

(***************************************************************************)
(* C11 Delivery ordering and no retry: run calls sendMessageToTelegram and *)
(* sendFileToTelegram at most once each; the upload call comes only after  *)
(* a notify call that succeeded, which comes only after a size check that  *)
(* passed, which comes only after zipImages returned nil; once notify or   *)
(* upload has failed run has returned 1 and makes no further call.         *)
(***************************************************************************)
\* the position of the call `name` among the calls of run, 0 if not made
CallAt(name) ==
    IF Called(name) THEN CHOOSE i \in 1..Len(calls) : calls[i] = name ELSE 0

DeliveryFailed ==
    Wrote(errStream, "notify_err", <<>>) \/ Wrote(errStream, "upload_err", <<>>)

C11_Order ==
    /\ Count(calls, "sendMessageToTelegram") <= 1
    /\ Count(calls, "sendFileToTelegram") <= 1
    /\ Called("sendFileToTelegram") =>
          /\ Called("sendMessageToTelegram")
          /\ CallAt("sendMessageToTelegram") < CallAt("sendFileToTelegram")
          /\ ~Wrote(errStream, "notify_err", <<>>)
    /\ Called("sendMessageToTelegram") =>
          /\ Called("sizeCheck")
          /\ CallAt("sizeCheck") < CallAt("sendMessageToTelegram")
          /\ zipSize <= 20 * 1024 * 1024
          /\ ~Wrote(errStream, "too_large", <<>>)
    /\ Called("sizeCheck") =>
          /\ CallAt("zipImages") > 0
          /\ CallAt("zipImages") < CallAt("sizeCheck")
          /\ ZipReturnedNil
    /\ DeliveryFailed => (rpc = "exit" /\ status = 1)
    /\ Wrote(errStream, "notify_err", <<>>) => ~Called("sendFileToTelegram")

C11_NoRetry == DeliveryFailed => calls' = calls

\* C11: the order of the calls in every state, no call after a failed
\* delivery in every step
C11_DeliveryOrder == []C11_Order /\ [][C11_NoRetry]_vars

\* the upload was attempted after a successful notify, failed, and run
\* returned 1
C11_Witness ==
    /\ rpc = "exit" /\ status = 1
    /\ Wrote(errStream, "upload_err", <<>>)
    /\ calls = <<"search", "zipImages", "os.Stat", "sizeCheck",
                 "sendMessageToTelegram", "sendFileToTelegram">>

(***************************************************************************)
(* C12 Idempotence of the walk: when search has run twice over the same    *)
(* tree with the same flags, the second walk leaves the same set of paths  *)
(* as the first, each image path once and nothing of the first walk.       *)
(* Violated: imageFiles is never emptied, so the second walk appends to    *)
(* what the first left (and either walk may lose a path to the race of C2).*)
(***************************************************************************)
C12_Idempotent ==
    (rpc = "walked2" /\ silence = first.silence /\ debug = first.debug) =>
        /\ SeqToSet(imageFiles) = SeqToSet(first.files)
        /\ \A f \in Files :
              Count(imageFiles, f) = IF classified[f] = "true" THEN 1 ELSE 0

(***************************************************************************)
(* C13 Build success implies a finalized container: zipImages returns nil  *)
(* only when every entry was written completely and the Close of the zip   *)
(* writer, which writes the central index, and of the file succeeded; run  *)
(* neither prints "Zipped N images" nor goes on to the size check and the  *)
(* delivery for an archive without index.  Violated: the deferred Close    *)
(* calls run after the return value is fixed and their errors are dropped. *)
(***************************************************************************)
C13_FinalizedOnSuccess ==
    /\ ZipReturnedNil =>
          /\ archive.created
          /\ archive.index
          /\ Len(archive.entries) = Len(imageFiles)
          /\ \A i \in 1..Len(archive.entries) : archive.entries[i].complete
    /\ ( \/ Wrote(outStream, "zipped", imageFiles)
         \/ Called("os.Stat")
         \/ Called("sendMessageToTelegram")
         \/ Called("sendFileToTelegram") ) => archive.index

(***************************************************************************)
(* C14 Discovery notifications agree with the result collection: once the  *)
(* top-level search has returned, every path was written to outStream by   *)
(* search as often as it occurs in imageFiles.  Violated: a path whose     *)
(* append was overwritten by another goroutine's append has been announced *)
(* and is missing from the collection.                                     *)
(***************************************************************************)
C14_AnnouncedIsCollected ==
    WalkReturned =>
        \A f \in Files : CopiesIn(<<"found", f>>, outStream) = Count(imageFiles, f)

(***************************************************************************)
(* C15 Termination of the walk: under fair scheduling of the goroutines,   *)
(* a search(location) that has been called eventually returns, also        *)
(* when listings, Info calls, opens or reads fail; an entry that is a      *)
(* symbolic link to a directory is classified as a file, never walked.     *)
(***************************************************************************)
C15_LinkNotWalked ==
    \A f \in Files :
        fs[f].fault = "symdir" =>
            /\ classified[f] \in {"none", "false"}
            /\ Count(imageFiles, f) = 0

C15_Terminates ==
    /\ (pc[Root] = "readdir") ~> WalkReturned
    /\ []C15_LinkNotWalked

\* the top-level search has returned from a tree in which r/d/e/h is a
\* symbolic link to a directory; the link was classified, not walked
C15_Witness ==
    /\ WalkReturned
    /\ fs[FileH].fault = "symdir"
    /\ classified[FileH] = "false"
    /\ pc[DirE] = "done"

(***************************************************************************)
(* C16 Error suppression: with -silence set the walk writes no error       *)
(* message to the error stream, whichever of the four failures occurs      *)
(* (listing, entry metadata, open, read); without it, each failure the     *)
(* walk meets has written exactly one error message once the walk is over. *)
(* Violated: the ReadDir and Info errors are printed without regard to     *)
(* silence.                                                                *)
(***************************************************************************)
ErrorKinds == {"readdir_err", "info_err", "open_failed", "read_failed"}

\* how many error messages the stream holds about the entry
ErrorCount(n) ==
    CopiesIn(<<"readdir_err", n>>, errStream) + CopiesIn(<<"info_err", n>>, errStream)
    + CopiesIn(<<"open_failed", n>>, errStream) + CopiesIn(<<"read_failed", n>>, errStream)

C16_Suppression ==
    /\ silence => \A n \in Nodes : ErrorCount(n) = 0
    /\ (~silence /\ WalkReturned) =>
          /\ fs[Root].fault = "nolist" => ErrorCount(Root) = 1
          /\ \A n \in Nodes :
                (Met(n) /\ fs[n].fault \in {"nolist", "noinfo", "noopen", "noread"})
                    => ErrorCount(n) = 1

(***************************************************************************)
(* C17 The flags silence and debug do not influence the result: two walks  *)
(* of the same tree with the same failures, under any two settings of the  *)
(* two flags, classify every entry alike and append and announce the same  *)
(* paths; whatever the flags, a file whose open or read fails is never     *)
(* classified as an image and never put into imageFiles.                   *)
(***************************************************************************)
C17_SameResult ==
    rpc = "walked2" =>
        /\ classified = first.classified
        /\ outStream = first.out (+) first.out

C17_FailedNeverInserted ==
    \A f \in Files :
        fs[f].fault \in {"noopen", "noread", "symdir"} =>
            /\ classified[f] # "true"
            /\ Count(imageFiles, f) = 0

\* C17: both parts, in every state of two walks with freely chosen flags
C17_FlagsNoInfluence == C17_SameResult /\ C17_FailedNeverInserted

\* two walks, the first without and the second with -silence, of a tree in
\* which r/d/e/h holds an image but cannot be opened: both left it out and
\* both collected r/f
C17_Witness ==
    /\ rpc = "walked2"
    /\ ~first.silence /\ silence
    /\ fs[FileH].fault = "noopen" /\ fs[FileH].sig
    /\ first.classified[FileH] = "false" /\ classified[FileH] = "false"
    /\ first.classified[FileF] = "true" /\ classified[FileF] = "true"

(***************************************************************************)
(* C18 Empty-result frame condition: when the walk has finished with       *)
(* imageFiles empty, the archive path is never created or truncated, the   *)
(* size check is not performed and notify and upload are not invoked; and  *)
(* once run has taken the branch, it has reported that no image files      *)
(* were found and returned 0.                                              *)
(***************************************************************************)
C18_WalkedEmpty == WalkReturned /\ Len(imageFiles) = 0

C18_Frame ==
    /\ archive = NoArchive
    /\ zipIdx = 0 /\ zipErr = "nil" /\ zipSize = 0
    /\ calls = <<"search">>
    /\ ~Wrote(outStream, "zipped", imageFiles)
    /\ ~Wrote(errStream, "too_large", <<>>)

C18_Reported ==
    /\ rpc = "exit"
    /\ status = 0
    /\ CopiesIn(<<"no_images", <<>>>>, outStream) = 1

\* C18: the frame holds from the return of the walk on, the report and the
\* status 0 from the step of run that follows it
C18_EmptyFrame ==
    C18_WalkedEmpty =>
        /\ C18_Frame
        /\ rpc \in {"search", "exit"}
        /\ (pc[Root] = "done" => C18_Reported)

\* run has returned 0 after a walk that met a file and found no image
C18_Witness ==
    /\ C18_WalkedEmpty
    /\ rpc = "exit" /\ status = 0
    /\ classified[FileF] = "false"
    /\ Wrote(outStream, "no_images", <<>>)

====
